---- MODULE Spec2Model ----
(***************************************************************************)
(* MCP alerts relay: signed webhooks are verified (utils/verifier.js),     *)
(* acknowledged, rendered and delivered to Slack over Socket Mode with a   *)
(* one-shot webhook as fallback (app.js, utils/slackClient.js).            *)
(*                                                                         *)
(* Node runs one thread: the code between two awaits is one atomic step.   *)
(* Each request therefore takes one step for the middleware plus the       *)
(* synchronous head of the handler, and one step per settled promise.      *)
(***************************************************************************)
EXTENDS Integers, Sequences, FiniteSets, TLC

(* ------------------------------------------------------------------ *)
(* Bounds                                                              *)
(* ------------------------------------------------------------------ *)
MaxEvents == 2

\* lifecycle signals SpecTracker follows
MaxSignals == 3

Requests == 1..MaxEvents

(* ------------------------------------------------------------------ *)
(* JavaScript values                                                   *)
(* ------------------------------------------------------------------ *)
\* undefined, and a defined value v
None == <<>>
Some(v) == <<v>>

\* !x for an optional string held as a sequence of characters
FalsyChars(x) == x = None \/ x[1] = <<>>

\* !x for an optional string held as an opaque name ("" is the empty string)
FalsyName(x) == x = None \/ x[1] = ""

(* ------------------------------------------------------------------ *)
(* Hex strings and Buffer.from(s, 'hex')                               *)
(* ------------------------------------------------------------------ *)
HexLower == <<"0","1","2","3","4","5","6","7","8","9","a","b","c","d","e","f">>
HexUpper == <<"0","1","2","3","4","5","6","7","8","9","A","B","C","D","E","F">>

IsHexChar(c) == \E i \in 1..16 : HexLower[i] = c \/ HexUpper[i] = c

HexValue(c) == (CHOOSE i \in 1..16 : HexLower[i] = c \/ HexUpper[i] = c) - 1

\* digest('hex'): two lower-case digits per byte
RECURSIVE ToHex(_)
ToHex(bytes) ==
    IF bytes = <<>> THEN <<>>
    ELSE <<HexLower[(bytes[1] \div 16) + 1], HexLower[(bytes[1] % 16) + 1]>>
         \o ToHex(Tail(bytes))

\* Buffer.from(s, 'hex'): decodes pairs of digits and stops at the first
\* pair that is not two hex digits; an odd trailing character is dropped.
RECURSIVE BufferFromHex(_)
BufferFromHex(s) ==
    IF Len(s) < 2 THEN <<>>
    ELSE IF IsHexChar(s[1]) /\ IsHexChar(s[2])
         THEN <<HexValue(s[1]) * 16 + HexValue(s[2])>>
              \o BufferFromHex(SubSeq(s, 3, Len(s)))
         ELSE <<>>

AlgorithmTag == <<"s","h","a","2","5","6","=">>

\* s.replace(/^sha256=/, '')
StripTag(s) ==
    IF Len(s) >= Len(AlgorithmTag) /\ SubSeq(s, 1, Len(AlgorithmTag)) = AlgorithmTag
    THEN SubSeq(s, Len(AlgorithmTag) + 1, Len(s))
    ELSE s

(* ------------------------------------------------------------------ *)
(* Payloads, secrets and the HMAC                                      *)
(* ------------------------------------------------------------------ *)
\* Request bodies on the wire, by name.  "packet" is the
\* carrier.packet.completed sample, "updated" the
\* carrier.incident_report.updated sample whose eventData has no carrier.
Payloads == {"packet", "updated"}

Secrets == {"s1", "s2"}

\* Variant: hmac.update(payload) is missing, the digest is that of the key.
HmacDigest_NoUpdate(payload, secret) ==
    << 26, (IF secret = "s1" THEN 60 ELSE 213) >>

\* Variant: the HMAC is keyed with a fixed string instead of the secret.
HmacDigest_KeyIgnored(payload, secret) ==
    << (IF payload = "packet" THEN 26 ELSE 191), 60 >>

\* HMAC-SHA256 taken as collision-free on the bounded sets: the digest is a
\* byte string that names the (payload, secret) pair.
HmacDigest(payload, secret) ==
    << (IF payload = "packet" THEN 26 ELSE 191),
       (IF secret = "s1" THEN 60 ELSE 213) >>

generateSignature(payload, secret) ==
    AlgorithmTag \o ToHex(HmacDigest(payload, secret))

\* crypto.timingSafeEqual on buffers of equal length
timingSafeEqual(a, b) == a = b

\* Variant: the tag is removed from the received signature only.
verifySignature_TagNotStripped(payload, signature, secret) ==
    IF FalsyName(payload) \/ FalsyChars(signature) \/ FalsyName(secret)
    THEN FALSE
    ELSE LET expectedBuffer == BufferFromHex(generateSignature(payload[1], secret[1]))
             receivedBuffer == BufferFromHex(StripTag(signature[1]))
         IN  IF Len(expectedBuffer) # Len(receivedBuffer)
             THEN FALSE
             ELSE timingSafeEqual(expectedBuffer, receivedBuffer)

\* Variant: only the decoded lengths are compared.
verifySignature_LengthOnly(payload, signature, secret) ==
    IF FalsyName(payload) \/ FalsyChars(signature) \/ FalsyName(secret)
    THEN FALSE
    ELSE Len(BufferFromHex(StripTag(generateSignature(payload[1], secret[1]))))
         = Len(BufferFromHex(StripTag(signature[1])))

verifySignature(payload, signature, secret) ==
    IF FalsyName(payload) \/ FalsyChars(signature) \/ FalsyName(secret)
    THEN FALSE
    ELSE LET expected == StripTag(generateSignature(payload[1], secret[1]))
             received == StripTag(signature[1])
             expectedBuffer == BufferFromHex(expected)
             receivedBuffer == BufferFromHex(received)
         IN  IF Len(expectedBuffer) # Len(receivedBuffer)
             THEN FALSE
             ELSE timingSafeEqual(expectedBuffer, receivedBuffer)

\* Variant: the guard leaves the secret out; crypto.createHmac throws on a
\* missing key.
legacyVerifySignature_SecretUnchecked(payload, signature, secret) ==
    IF FalsyName(payload) \/ FalsyChars(signature)
    THEN "false"
    ELSE IF secret = None
    THEN "throws"
    ELSE LET expectedSignature == AlgorithmTag \o ToHex(HmacDigest(payload[1], secret[1]))
         IN  IF Len(signature[1]) # Len(expectedSignature)
             THEN "throws"
             ELSE IF timingSafeEqual(signature[1], expectedSignature)
                  THEN "true" ELSE "false"

\* The other verifySignature of the repository: it compares the two
\* signature strings as byte buffers, and crypto.timingSafeEqual throws a
\* RangeError when their byte lengths differ.  Returns "true", "false" or
\* "throws".
legacyVerifySignature(payload, signature, secret) ==
    IF FalsyName(payload) \/ FalsyChars(signature) \/ FalsyName(secret)
    THEN "false"
    ELSE LET expectedSignature == AlgorithmTag \o ToHex(HmacDigest(payload[1], secret[1]))
         IN  IF Len(signature[1]) # Len(expectedSignature)
             THEN "throws"
             ELSE IF timingSafeEqual(signature[1], expectedSignature)
                  THEN "true" ELSE "false"

\* getExpressVerifyCallback: rawBody is set only for a non-empty buffer
CaptureRawBody(wire) == IF wire = "" THEN None ELSE Some(wire)

(* ------------------------------------------------------------------ *)
(* Rendering                                                           *)
(* ------------------------------------------------------------------ *)
\* formatSlackMessage reads eventData.carrier.legalName first: it throws a
\* TypeError when eventData has no carrier.
RenderThrows(wire) == wire = "updated"

(* ------------------------------------------------------------------ *)
(* State                                                               *)
(* ------------------------------------------------------------------ *)
VARIABLES
    env,                  \* process.env, fixed at process start
    main,                 \* position of the startup function of app.js
    socketModeConnected,  \* the connectivity flag of app.js
    reqs,                 \* the webhook POSTs, by request
    history,              \* writes to the flag so far (kept by SpecTracker)
    check,                \* one call of a verifySignature (made by SpecVerify)
    health                \* the last answer of a health route (kept by SpecHealth)

vars == <<env, main, socketModeConnected, reqs, history, check, health>>

\* A request records what it does, in program order, in its trace:
\* responses written, rendering, outbound calls and log lines.  Its
\* snapshot is the value of the flag the handler read at `if
\* (socketModeConnected)`, "unread" when it never got there.
ResponseEvents == {"res200", "res400", "res401", "res500"}
CallEvents == {"postMessage", "sendWebhookMessage"}

\* Signature headers the senders use: none, the signature of each payload
\* under each secret, and re-encodings of one of them.
UpperDigest(payload, secret) ==
    LET hex == ToHex(HmacDigest(payload, secret))
    IN  AlgorithmTag \o
        [i \in 1..Len(hex) |-> HexUpper[(CHOOSE k \in 1..16 : HexLower[k] = hex[i])]]

SentHeaders ==
    {None}
    \cup {Some(generateSignature(p, s)) : p \in Payloads, s \in Secrets}
    \cup {Some(UpperDigest("packet", "s1")),
          Some(generateSignature("packet", "s1") \o <<"z", "z">>),
          Some(SubSeq(generateSignature("packet", "s1"), 1,
                      Len(generateSignature("packet", "s1")) - 2))}

\* Bodies on the wire: a payload, or nothing.
Wires == Payloads \cup {""}

\* Rejection reasons of chat.postMessage (Slack Web API errors carry a
\* message) and of sendWebhookMessage (plain objects without a message).
PostMessageErrors == {Some("An API error occurred"), Some("A request error occurred")}
WebhookErrors == {None}

\* process.env when the variable the middleware reads is set
DeployedEnv == [MCP_WEBHOOK_SIGNING_SECRET |-> Some("s1"), MCP_WEBHOOK_SECRET |-> None]

\* process.env set up as the README describes: MCP_WEBHOOK_SECRET only
ReadmeEnv == [MCP_WEBHOOK_SIGNING_SECRET |-> None, MCP_WEBHOOK_SECRET |-> Some("s1")]

\* test/webhook.js sendTestWebhook: the MCP-Signature header it sends with
\* a sample payload, signed with MCP_WEBHOOK_SECRET
sendTestWebhook(payload) ==
    Some(generateSignature(payload, env.MCP_WEBHOOK_SECRET[1]))

\* no GET on a health route has been answered
NoHealth == [route |-> "none", signature |-> None, status |-> "none", body |-> "none"]

\* no call of verifySignature is under study
NoCheck ==
    [pc |-> "none", impl |-> "none", payload |-> None, signature |-> None,
     secret |-> None, result |-> "none"]

FreshRequest ==
    [pc |-> "idle", wire |-> "", header |-> None, snapshot |-> "unread", trace |-> <<>>]

\* Variant: the flag is declared true.
Init_StartsConnected ==
    /\ env \in {DeployedEnv, ReadmeEnv}
    /\ main = "starting"
    /\ socketModeConnected = TRUE
    /\ reqs = [r \in Requests |-> FreshRequest]
    /\ history = <<>>
    /\ check = NoCheck
    /\ health = NoHealth

Init ==
    /\ env \in {DeployedEnv, ReadmeEnv}
    /\ main = "starting"
    /\ socketModeConnected = FALSE
    /\ reqs = [r \in Requests |-> FreshRequest]
    /\ history = <<>>
    /\ check = NoCheck
    /\ health = NoHealth

(* ------------------------------------------------------------------ *)
(* Startup and Socket Mode lifecycle                                   *)
(* ------------------------------------------------------------------ *)
\* await slackApp.start() fulfils: the flag is set and Express listens
StartOkStep ==
    /\ main = "starting"
    /\ main' = "listening"
    /\ socketModeConnected' = TRUE
    /\ UNCHANGED <<health, check, env, reqs>>

StartOk == StartOkStep /\ UNCHANGED history

\* await slackApp.start() rejects: process.exit(1)
StartFail ==
    /\ main = "starting"
    /\ main' = "exited"
    /\ UNCHANGED <<health, history, check, env, socketModeConnected, reqs>>

LifecycleSignals == {"error", "connecting", "authenticated", "disconnecting", "reconnecting"}

\* Variant: 'reconnecting' is taken for a live session.
LifecycleStep_ReconnectingConnected(signal) ==
    /\ main # "exited"
    /\ socketModeConnected' = (signal \in {"authenticated", "reconnecting"})
    /\ UNCHANGED <<health, check, env, main, reqs>>

\* Variant: a signal other than 'authenticated' gives up the sends that
\* are still pending and turns them to the webhook.
LifecycleStep_AbandonsPending(signal) ==
    /\ main # "exited"
    /\ socketModeConnected' = (signal = "authenticated")
    /\ reqs' = [r \in Requests |->
                 IF signal # "authenticated" /\ reqs[r].pc = "awaitPostMessage"
                 THEN [reqs[r] EXCEPT
                         !.pc = "awaitBackup",
                         !.trace = @ \o <<"logTryingBackup", "sendWebhookMessage">>]
                 ELSE reqs[r]]
    /\ UNCHANGED <<health, check, env, main>>

\* one of the five callbacks runs
LifecycleStep(signal) ==
    /\ main # "exited"
    /\ socketModeConnected' = (signal = "authenticated")
    /\ UNCHANGED <<health, check, env, main, reqs>>

Lifecycle(signal) == LifecycleStep(signal) /\ UNCHANGED history

(* ------------------------------------------------------------------ *)
(* One call of verifySignature on inputs of every kind                 *)
(* ------------------------------------------------------------------ *)
CheckPayloads == {None, Some("")} \cup {Some(p) : p \in Payloads}

CheckSecrets == {None, Some("")} \cup {Some(k) : k \in Secrets}

\* received signatures: those the senders use, the empty string, a digest
\* without its tag, a string with no hex digit, a digest with an odd digit
ReceivedSignatures ==
    SentHeaders
    \cup {Some(<<>>),
          Some(ToHex(HmacDigest("packet", "s1"))),
          Some(<<"z", "z">>),
          Some(generateSignature("packet", "s1") \o <<"0">>)}

InitVerify ==
    /\ env = DeployedEnv
    /\ main = "starting"
    /\ socketModeConnected = FALSE
    /\ reqs = [r \in Requests |-> FreshRequest]
    /\ history = <<>>
    /\ check \in [pc : {"called"}, impl : {"verifier", "legacy"},
                  payload : CheckPayloads, signature : ReceivedSignatures,
                  secret : CheckSecrets, result : {"pending"}]
    /\ health = NoHealth

\* utils/verifier.js verifySignature returns
VerifierReturns ==
    /\ check.pc = "called"
    /\ check.impl = "verifier"
    /\ check' = [check EXCEPT
                   !.pc = "returned",
                   !.result = IF verifySignature(check.payload, check.signature, check.secret)
                              THEN "true" ELSE "false"]
    /\ UNCHANGED <<env, main, socketModeConnected, reqs, history, health>>

\* the other verifySignature returns or throws
LegacyReturns ==
    /\ check.pc = "called"
    /\ check.impl = "legacy"
    /\ check' = [check EXCEPT
                   !.pc = "returned",
                   !.result = legacyVerifySignature(check.payload, check.signature, check.secret)]
    /\ UNCHANGED <<env, main, socketModeConnected, reqs, history, health>>

NextVerify == VerifierReturns \/ LegacyReturns

SpecVerify == InitVerify /\ [][NextVerify]_vars

(* ------------------------------------------------------------------ *)
(* The connectivity flag and its writers, with their history           *)
(* ------------------------------------------------------------------ *)
\* the same steps, each recorded in history as it writes the flag
ObservedStartOk == StartOkStep /\ history' = Append(history, "started")

ObservedLifecycle(signal) ==
    /\ Len(history) < MaxSignals
    /\ LifecycleStep(signal)
    /\ history' = Append(history, signal)

NextTracker ==
    \/ ObservedStartOk
    \/ StartFail
    \/ \E signal \in LifecycleSignals : ObservedLifecycle(signal)

SpecTracker == Init /\ [][NextTracker]_vars

\* Occurrences of an event in a trace
Count(trace, e) == Cardinality({i \in 1..Len(trace) : trace[i] = e})

Positions(trace, e) == {i \in 1..Len(trace) : trace[i] = e}

(* ------------------------------------------------------------------ *)
(* The webhook route                                                   *)
(* ------------------------------------------------------------------ *)
\* Variant: the test on the secret is left out.
mcpVerifyMiddleware_NoSecretCheck(wire, header) ==
    LET secret == env.MCP_WEBHOOK_SIGNING_SECRET
        rawBody == CaptureRawBody(wire)
    IN  IF FalsyChars(header) THEN "res400"
        ELSE IF FalsyName(rawBody) THEN "res500"
        ELSE IF verifySignature(rawBody, header, secret) THEN "next"
        ELSE "res401"

\* Variant: the missing-header check is left out.
mcpVerifyMiddleware_NoHeaderCheck(wire, header) ==
    LET secret == env.MCP_WEBHOOK_SIGNING_SECRET
        rawBody == CaptureRawBody(wire)
    IN  IF FalsyName(secret) THEN "res500"
        ELSE IF FalsyName(rawBody) THEN "res500"
        ELSE IF verifySignature(rawBody, header, secret) THEN "next"
        ELSE "res401"

\* Variant: the raw body is not looked at before the comparison.
mcpVerifyMiddleware_NoRawBodyCheck(wire, header) ==
    LET secret == env.MCP_WEBHOOK_SIGNING_SECRET
        rawBody == CaptureRawBody(wire)
    IN  IF FalsyName(secret) THEN "res500"
        ELSE IF FalsyChars(header) THEN "res400"
        ELSE IF verifySignature(rawBody, header, secret) THEN "next"
        ELSE "res401"

\* Variant: the header is looked for before the secret.
mcpVerifyMiddleware_HeaderFirst(wire, header) ==
    LET secret == env.MCP_WEBHOOK_SIGNING_SECRET
        rawBody == CaptureRawBody(wire)
    IN  IF FalsyChars(header) THEN "res400"
        ELSE IF FalsyName(secret) THEN "res500"
        ELSE IF FalsyName(rawBody) THEN "res500"
        ELSE IF verifySignature(rawBody, header, secret) THEN "next"
        ELSE "res401"

\* mcpVerifyMiddleware: the response it writes, or "next"
mcpVerifyMiddleware(wire, header) ==
    LET secret == env.MCP_WEBHOOK_SIGNING_SECRET
        rawBody == CaptureRawBody(wire)
    IN  IF FalsyName(secret) THEN "res500"
        ELSE IF FalsyChars(header) THEN "res400"
        ELSE IF FalsyName(rawBody) THEN "res500"
        ELSE IF verifySignature(rawBody, header, secret) THEN "next"
        ELSE "res401"

\* Variant: the flag is read but Socket Mode is tried whatever its value.
HandlerHead_AlwaysSocket(wire) ==
    IF RenderThrows(wire)
    THEN [pc |-> "done", snapshot |-> "unread",
          trace |-> <<"res200", "renderThrow", "logErrorProcessing">>]
    ELSE [pc |-> "awaitPostMessage",
          snapshot |-> IF socketModeConnected THEN "connected" ELSE "disconnected",
          trace |-> <<"res200", "render", "postMessage">>]

\* Variant: the acknowledgment is written after the first send has started.
HandlerHead_AckLast(wire) ==
    IF RenderThrows(wire)
    THEN [pc |-> "done", snapshot |-> "unread",
          trace |-> <<"renderThrow", "logErrorProcessing", "res200">>]
    ELSE IF socketModeConnected
    THEN [pc |-> "awaitPostMessage", snapshot |-> "connected",
          trace |-> <<"render", "postMessage", "res200">>]
    ELSE [pc |-> "awaitWebhook", snapshot |-> "disconnected",
          trace |-> <<"render", "logFallback", "sendWebhookMessage", "res200">>]

\* Variant: rendering comes first and its fault is answered with a 500.
HandlerHead_RenderFault500(wire) ==
    IF RenderThrows(wire)
    THEN [pc |-> "done", snapshot |-> "unread",
          trace |-> <<"renderThrow", "logErrorProcessing", "res500">>]
    ELSE IF socketModeConnected
    THEN [pc |-> "awaitPostMessage", snapshot |-> "connected",
          trace |-> <<"res200", "render", "postMessage">>]
    ELSE [pc |-> "awaitWebhook", snapshot |-> "disconnected",
          trace |-> <<"res200", "render", "logFallback", "sendWebhookMessage">>]

\* The handler from its first line to its first await (or to its end)
HandlerHead(wire) ==
    IF RenderThrows(wire)
    THEN [pc |-> "done", snapshot |-> "unread",
          trace |-> <<"res200", "renderThrow", "logErrorProcessing">>]
    ELSE IF socketModeConnected
    THEN [pc |-> "awaitPostMessage", snapshot |-> "connected",
          trace |-> <<"res200", "render", "postMessage">>]
    ELSE [pc |-> "awaitWebhook", snapshot |-> "disconnected",
          trace |-> <<"res200", "render", "logFallback", "sendWebhookMessage">>]

\* Variant: without the outer try/catch a render fault is an unhandled
\* rejection, which ends the process.
Arrive_NoOuterCatch(r, wire, header) ==
    /\ main = "listening"
    /\ reqs[r].pc = "idle"
    /\ \A q \in Requests : q < r => reqs[q].pc # "idle"
    /\ LET answer == mcpVerifyMiddleware(wire, header)
           head == HandlerHead(wire)
       IN  /\ reqs' = [reqs EXCEPT ![r] =
                IF answer = "next"
                THEN [pc |-> head.pc, wire |-> wire, header |-> header,
                      snapshot |-> head.snapshot,
                      trace |-> IF RenderThrows(wire)
                                THEN <<"res200", "renderThrow">>
                                ELSE head.trace]
                ELSE [pc |-> "rejected", wire |-> wire, header |-> header,
                      snapshot |-> "unread", trace |-> <<answer>>]]
           /\ main' = IF answer = "next" /\ RenderThrows(wire)
                      THEN "exited" ELSE main
    /\ UNCHANGED <<health, history, check, env, socketModeConnected>>

\* Variant: expressApp.listen is called before slackApp.start() is awaited,
\* so the route answers while the session is still starting.
Arrive_ListensBeforeStart(r, wire, header) ==
    /\ main \in {"starting", "listening"}
    /\ reqs[r].pc = "idle"
    /\ \A q \in Requests : q < r => reqs[q].pc # "idle"
    /\ LET answer == mcpVerifyMiddleware(wire, header)
           head == HandlerHead(wire)
       IN  reqs' = [reqs EXCEPT ![r] =
                IF answer = "next"
                THEN [pc |-> head.pc, wire |-> wire, header |-> header,
                      snapshot |-> head.snapshot, trace |-> head.trace]
                ELSE [pc |-> "rejected", wire |-> wire, header |-> header,
                      snapshot |-> "unread", trace |-> <<answer>>]]
    /\ UNCHANGED <<health, history, check, env, main, socketModeConnected>>

\* A POST reaches the route: middleware, then the handler's head
Arrive(r, wire, header) ==
    /\ main = "listening"
    /\ reqs[r].pc = "idle"
    /\ \A q \in Requests : q < r => reqs[q].pc # "idle"
    /\ LET answer == mcpVerifyMiddleware(wire, header)
           head == HandlerHead(wire)
       IN  reqs' = [reqs EXCEPT ![r] =
                IF answer = "next"
                THEN [pc |-> head.pc, wire |-> wire, header |-> header,
                      snapshot |-> head.snapshot, trace |-> head.trace]
                ELSE [pc |-> "rejected", wire |-> wire, header |-> header,
                      snapshot |-> "unread", trace |-> <<answer>>]]
    /\ UNCHANGED <<health, history, check, env, main, socketModeConnected>>

FallbackSentinel == Some("webhook fallback already used")

\* Variant: the test on the message is inverted, so no backup is tried.
CatchSlackError_NoBackup(message) ==
    IF message = FallbackSentinel
    THEN [pc |-> "awaitBackup",
          trace |-> <<"logErrorPosting", "logTryingBackup", "sendWebhookMessage">>]
    ELSE [pc |-> "done", trace |-> <<"logErrorPosting">>]

\* Variant: the catch block reads the flag again and retries Socket Mode
\* when it is set.
CatchSlackError_RereadFlag(message) ==
    IF message # FallbackSentinel
    THEN IF socketModeConnected
         THEN [pc |-> "awaitBackup",
               trace |-> <<"logErrorPosting", "logTryingBackup", "postMessage">>]
         ELSE [pc |-> "awaitBackup",
               trace |-> <<"logErrorPosting", "logTryingBackup", "sendWebhookMessage">>]
    ELSE [pc |-> "done", trace |-> <<"logErrorPosting">>]

\* catch (slackError): log, then the backup webhook unless the sentinel
CatchSlackError(message) ==
    IF message # FallbackSentinel
    THEN [pc |-> "awaitBackup",
          trace |-> <<"logErrorPosting", "logTryingBackup", "sendWebhookMessage">>]
    ELSE [pc |-> "done", trace |-> <<"logErrorPosting">>]

Continue(r, step) ==
    reqs' = [reqs EXCEPT ![r].pc = step.pc, ![r].trace = @ \o step.trace]

\* Variant: the webhook is called as well after Socket Mode succeeded.
PostMessageFulfil_AlsoWebhook(r) ==
    /\ main = "listening"
    /\ reqs[r].pc = "awaitPostMessage"
    /\ Continue(r, [pc |-> "awaitBackup",
                    trace |-> <<"logSocketPosted", "sendWebhookMessage">>])
    /\ UNCHANGED <<health, history, check, env, main, socketModeConnected>>

\* Variant: a Socket Mode send that succeeded marks the session connected.
PostMessageFulfil_MarksConnected(r) ==
    /\ main = "listening"
    /\ reqs[r].pc = "awaitPostMessage"
    /\ Continue(r, [pc |-> "done", trace |-> <<"logSocketPosted">>])
    /\ socketModeConnected' = TRUE
    /\ UNCHANGED <<health, history, check, env, main>>

\* chat.postMessage settles
PostMessageFulfil(r) ==
    /\ main = "listening"
    /\ reqs[r].pc = "awaitPostMessage"
    /\ Continue(r, [pc |-> "done", trace |-> <<"logSocketPosted">>])
    /\ UNCHANGED <<health, history, check, env, main, socketModeConnected>>

\* Variant: a failed Socket Mode send marks the session disconnected.
PostMessageReject_MarksDisconnected(r, message) ==
    /\ main = "listening"
    /\ reqs[r].pc = "awaitPostMessage"
    /\ Continue(r, CatchSlackError(message))
    /\ socketModeConnected' = FALSE
    /\ UNCHANGED <<health, history, check, env, main>>

\* Variant: one failed Socket Mode send turns every pending send to the
\* webhook.
PostMessageReject_FailsAll(r, message) ==
    /\ main = "listening"
    /\ reqs[r].pc = "awaitPostMessage"
    /\ reqs' = [q \in Requests |->
                 IF reqs[q].pc = "awaitPostMessage"
                 THEN [reqs[q] EXCEPT
                         !.pc = CatchSlackError(message).pc,
                         !.trace = @ \o CatchSlackError(message).trace]
                 ELSE reqs[q]]
    /\ UNCHANGED <<health, history, check, env, main, socketModeConnected>>

PostMessageReject(r, message) ==
    /\ main = "listening"
    /\ reqs[r].pc = "awaitPostMessage"
    /\ Continue(r, CatchSlackError(message))
    /\ UNCHANGED <<health, history, check, env, main, socketModeConnected>>

\* the first-choice sendWebhookMessage (Socket Mode was disconnected) settles
WebhookFulfil(r) ==
    /\ main = "listening"
    /\ reqs[r].pc = "awaitWebhook"
    /\ Continue(r, [pc |-> "done", trace |-> <<"logWebhookPosted">>])
    /\ UNCHANGED <<health, history, check, env, main, socketModeConnected>>

\* Variant: the rejection of the first-choice webhook call is logged and
\* nothing more is done or said.
WebhookReject_Swallowed(r, message) ==
    /\ main = "listening"
    /\ reqs[r].pc = "awaitWebhook"
    /\ Continue(r, [pc |-> "done", trace |-> <<"logErrorPosting">>])
    /\ UNCHANGED <<health, history, check, env, main, socketModeConnected>>

WebhookReject(r, message) ==
    /\ main = "listening"
    /\ reqs[r].pc = "awaitWebhook"
    /\ Continue(r, CatchSlackError(message))
    /\ UNCHANGED <<health, history, check, env, main, socketModeConnected>>

\* the backup sendWebhookMessage settles
BackupFulfil(r) ==
    /\ main = "listening"
    /\ reqs[r].pc = "awaitBackup"
    /\ Continue(r, [pc |-> "done", trace |-> <<"logBackupSucceeded">>])
    /\ UNCHANGED <<health, history, check, env, main, socketModeConnected>>

\* Variant: a failed backup is tried again.
BackupReject_Retry(r) ==
    /\ main = "listening"
    /\ reqs[r].pc = "awaitBackup"
    /\ Continue(r, IF Count(reqs[r].trace, "logBothFailed") = 0
                    THEN [pc |-> "awaitBackup",
                          trace |-> <<"logBothFailed", "sendWebhookMessage">>]
                    ELSE [pc |-> "done", trace |-> <<"logBothFailed">>])
    /\ UNCHANGED <<health, history, check, env, main, socketModeConnected>>

\* Variant: when both channels have failed the handler answers 500.
BackupReject_Responds500(r) ==
    /\ main = "listening"
    /\ reqs[r].pc = "awaitBackup"
    /\ Continue(r, [pc |-> "done", trace |-> <<"logBothFailed", "res500">>])
    /\ UNCHANGED <<health, history, check, env, main, socketModeConnected>>

BackupReject(r) ==
    /\ main = "listening"
    /\ reqs[r].pc = "awaitBackup"
    /\ Continue(r, [pc |-> "done", trace |-> <<"logBothFailed">>])
    /\ UNCHANGED <<health, history, check, env, main, socketModeConnected>>

Next ==
    \/ StartOk
    \/ StartFail
    \/ \E signal \in LifecycleSignals : Lifecycle(signal)
    \/ \E r \in Requests, wire \in Wires, header \in SentHeaders : Arrive(r, wire, header)
    \/ \E r \in Requests : PostMessageFulfil(r)
    \/ \E r \in Requests, m \in PostMessageErrors : PostMessageReject(r, m)
    \/ \E r \in Requests : WebhookFulfil(r)
    \/ \E r \in Requests, m \in WebhookErrors : WebhookReject(r, m)
    \/ \E r \in Requests : BackupFulfil(r)
    \/ \E r \in Requests : BackupReject(r)

Spec == Init /\ [][Next]_vars

(* ------------------------------------------------------------------ *)
(* The health routes, next to the webhook route                        *)
(* ------------------------------------------------------------------ *)
\* a GET on a health route comes without or with an MCP-Signature header
HealthHeaders == {None, Some(generateSignature("packet", "s1"))}

\* Variant: the Express route reports the session as connected once the
\* server listens.
ExpressHealth_ReportsStartup(header) ==
    /\ main = "listening"
    /\ health' = [route |-> "express", signature |-> header, status |-> "res200",
                  body |-> "connected"]
    /\ UNCHANGED <<history, check, env, main, socketModeConnected, reqs>>

\* expressApp.get('/health'): status 200 and socketMode 'connected' or
\* 'disconnected'; the route exists once Express listens
ExpressHealth(header) ==
    /\ main = "listening"
    /\ health' = [route |-> "express", signature |-> header, status |-> "res200",
                  body |-> IF socketModeConnected THEN "connected" ELSE "disconnected"]
    /\ UNCHANGED <<history, check, env, main, socketModeConnected, reqs>>

\* customRoutes '/health' of the Bolt app: writeHead(200) and the text
\* `Socket Mode: ${socketModeConnected}`; the receiver serves it from the
\* moment slackApp.start() is under way
BoltHealth(header) ==
    /\ main # "exited"
    /\ health' = [route |-> "bolt", signature |-> header, status |-> "res200",
                  body |-> IF socketModeConnected THEN "true" ELSE "false"]
    /\ UNCHANGED <<history, check, env, main, socketModeConnected, reqs>>

\* the application with its health routes; the POSTs are those
\* test/webhook.js signs with the deployed secret
NextHealth ==
    \/ StartOk
    \/ StartFail
    \/ \E signal \in LifecycleSignals : Lifecycle(signal)
    \/ \E r \in Requests, wire \in Payloads :
          Arrive(r, wire, Some(generateSignature(wire, "s1")))
    \/ \E r \in Requests : PostMessageFulfil(r)
    \/ \E r \in Requests, m \in PostMessageErrors : PostMessageReject(r, m)
    \/ \E r \in Requests : WebhookFulfil(r)
    \/ \E r \in Requests, m \in WebhookErrors : WebhookReject(r, m)
    \/ \E r \in Requests : BackupFulfil(r)
    \/ \E r \in Requests : BackupReject(r)
    \/ \E header \in HealthHeaders : ExpressHealth(header)
    \/ \E header \in HealthHeaders : BoltHealth(header)

SpecHealth == Init /\ [][NextHealth]_vars

(* ------------------------------------------------------------------ *)
(* The application when every transport call settles                   *)
(* ------------------------------------------------------------------ *)
\* the promise request r awaits settles, one way or the other
Settles(r) ==
    \/ PostMessageFulfil(r)
    \/ \E m \in PostMessageErrors : PostMessageReject(r, m)
    \/ WebhookFulfil(r)
    \/ \E m \in WebhookErrors : WebhookReject(r, m)
    \/ BackupFulfil(r)
    \/ BackupReject(r)

\* the POSTs are those test/webhook.js signs with the deployed secret
NextLive ==
    \/ StartOk
    \/ StartFail
    \/ \E signal \in LifecycleSignals : Lifecycle(signal)
    \/ \E r \in Requests, wire \in Payloads :
          Arrive(r, wire, Some(generateSignature(wire, "s1")))
    \/ \E r \in Requests : PostMessageFulfil(r)
    \/ \E r \in Requests, m \in PostMessageErrors : PostMessageReject(r, m)
    \/ \E r \in Requests : WebhookFulfil(r)
    \/ \E r \in Requests, m \in WebhookErrors : WebhookReject(r, m)
    \/ \E r \in Requests : BackupFulfil(r)
    \/ \E r \in Requests : BackupReject(r)

\* no call stays pending for ever; nothing is asked of startup, of the
\* session's signals or of the senders
SpecLive ==
    /\ Init
    /\ [][NextLive]_vars
    /\ \A r \in Requests : WF_vars(Settles(r))

(* ------------------------------------------------------------------ *)
(* Reading a request's trace                                           *)
(* ------------------------------------------------------------------ *)
Calls(r) == Count(reqs[r].trace, "postMessage") + Count(reqs[r].trace, "sendWebhookMessage")

Admitted(r) == Count(reqs[r].trace, "res200") > 0

Finished(r) == reqs[r].pc = "done"

TypeOK ==
    /\ main \in {"starting", "listening", "exited"}
    /\ socketModeConnected \in BOOLEAN
    /\ \A r \in Requests :
         reqs[r].pc \in {"idle", "rejected", "awaitPostMessage", "awaitWebhook",
                         "awaitBackup", "done"}

(* ------------------------------------------------------------------ *)
(* Properties of the delivery router                                   *)
(* ------------------------------------------------------------------ *)
Trace(r) == reqs[r].trace

PostMessageCalls(r) == Count(Trace(r), "postMessage")

WebhookCalls(r) == Count(Trace(r), "sendWebhookMessage")

Has(r, e) == \E i \in 1..Len(Trace(r)) : Trace(r)[i] = e

\* every occurrence of a comes before every occurrence of b
Before(r, a, b) ==
    \A i \in Positions(Trace(r), a), j \in Positions(Trace(r), b) : i < j

ReadConnected(r) == reqs[r].snapshot = "connected"

ReadDisconnected(r) == reqs[r].snapshot = "disconnected"

\* the Socket Mode send of r has failed: the catch block has logged it
PrimaryFailed(r) == ReadConnected(r) /\ Has(r, "logErrorPosting")

\* C1: an event handled while connected whose Socket Mode send has failed
\* has called the webhook exactly once, after the one Socket Mode call and
\* after that call's failure was caught.
C1_FallbackOnceAfterPrimaryFailure ==
    \A r \in Requests :
        PrimaryFailed(r) =>
            /\ PostMessageCalls(r) = 1
            /\ WebhookCalls(r) = 1
            /\ Before(r, "postMessage", "logErrorPosting")
            /\ Before(r, "logErrorPosting", "sendWebhookMessage")

C1_Witness ==
    \E r \in Requests :
        PrimaryFailed(r) /\ Finished(r) /\ Has(r, "logBackupSucceeded")

\* C2: an event handled while disconnected never calls the Socket Mode
\* send; every outbound call it makes is a webhook call, whether the
\* webhook succeeds or fails.
C2_DisconnectedNeverUsesSocket ==
    \A r \in Requests :
        ReadDisconnected(r) =>
            /\ PostMessageCalls(r) = 0
            /\ WebhookCalls(r) >= 1
            /\ Calls(r) = WebhookCalls(r)

C2_Witness ==
    \E r \in Requests :
        ReadDisconnected(r) /\ Finished(r) /\ Has(r, "logErrorPosting")

\* C3: each event calls the webhook at most once and the Socket Mode send
\* at most once; in particular a failed first-choice webhook is not
\* followed by a second webhook call.
C3_AtMostOneCallPerChannel ==
    \A r \in Requests : WebhookCalls(r) <= 1 /\ PostMessageCalls(r) <= 1

\* C4: an event handled while connected whose Socket Mode send succeeded is
\* done with exactly one outbound call, the Socket Mode one, and no webhook
\* call.
C4_PrimarySuccessIsSingleCall ==
    \A r \in Requests :
        (ReadConnected(r) /\ Has(r, "logSocketPosted")) =>
            /\ Finished(r)
            /\ Calls(r) = 1
            /\ PostMessageCalls(r) = 1
            /\ WebhookCalls(r) = 0

C4_Witness ==
    \E r \in Requests : ReadConnected(r) /\ Has(r, "logSocketPosted")

BothFailed(r) == ReadConnected(r) /\ Has(r, "logBothFailed")

BothFailedShape(r) ==
    /\ Finished(r)
    /\ Calls(r) = 2
    /\ PostMessageCalls(r) = 1
    /\ WebhookCalls(r) = 1
    /\ Before(r, "postMessage", "sendWebhookMessage")
    /\ Has(r, "logErrorPosting")

\* C5: when an event handled while connected has both channels fail, it
\* made exactly two outbound calls (Socket Mode, then webhook), both
\* failures were logged, and no later step adds anything to that event.
C5_BothFailTwoCallsNoRetry ==
    /\ [](\A r \in Requests : BothFailed(r) => BothFailedShape(r))
    /\ [][\A r \in Requests :
            (reqs'[r] # reqs[r]) => ~BothFailed(r)]_vars

C5_Witness ==
    \E r \in Requests : BothFailed(r) /\ Finished(r)

Rendered(r) == Has(r, "render")

\* C6: a rendered event whose delivery has finished made exactly one or two
\* outbound calls: one when the Socket Mode send succeeded or when it was
\* skipped and the webhook succeeded, two only when the Socket Mode send
\* was tried and failed.
C6_OneOrTwoCalls ==
    \A r \in Requests :
        (Rendered(r) /\ Finished(r)) =>
            /\ Calls(r) \in {1, 2}
            /\ (Has(r, "logSocketPosted") \/ Has(r, "logWebhookPosted")) => Calls(r) = 1
            /\ Calls(r) = 2 => (PostMessageCalls(r) = 1 /\ PrimaryFailed(r))

(* ------------------------------------------------------------------ *)
(* Properties of the webhook route                                     *)
(* ------------------------------------------------------------------ *)
Arrived(r) == reqs[r].pc # "idle"

SigningSecret == env.MCP_WEBHOOK_SIGNING_SECRET

\* verifySignature on every raw body, header and secret a request can meet
VerifyOutcome ==
    [wire \in Wires, header \in SentHeaders, secret \in {None} \cup {Some(k) : k \in Secrets}
        |-> verifySignature(CaptureRawBody(wire), header, secret)]

\* the signature of r verifies under the configured secret
Verified(r) == VerifyOutcome[reqs[r].wire, reqs[r].header, SigningSecret]

NotProcessed(r) ==
    /\ ~Has(r, "render")
    /\ ~Has(r, "renderThrow")
    /\ Calls(r) = 0

\* C7: for a request whose signature verifies, the 200 response is the
\* first thing the handler does: it is written before the message is
\* rendered and before any outbound call, Socket Mode or webhook, starts.
C7_AckBeforeDelivery ==
    \A r \in Requests :
        (Arrived(r) /\ Verified(r)) =>
            /\ Trace(r)[1] = "res200"
            /\ Before(r, "res200", "render")
            /\ Before(r, "res200", "renderThrow")
            /\ Before(r, "res200", "postMessage")
            /\ Before(r, "res200", "sendWebhookMessage")

C7_Witness ==
    \E r \in Requests :
        Arrived(r) /\ Verified(r) /\ Rendered(r) /\ Calls(r) >= 1

\* C8: a request whose signature verifies is answered with 200 and with
\* nothing else, whatever follows: a render fault, a failed Socket Mode
\* send or the failure of both channels leaves the one 200 response.
C8_VerifiedAlways200 ==
    \A r \in Requests :
        (Arrived(r) /\ Verified(r)) =>
            /\ Count(Trace(r), "res200") = 1
            /\ \A e \in ResponseEvents \ {"res200"} : ~Has(r, e)

C8_Witness ==
    /\ \E r \in Requests : Verified(r) /\ Has(r, "renderThrow")
    /\ \E r \in Requests : Verified(r) /\ Has(r, "logBothFailed")

\* C9 as stated: a POST without an MCP-Signature header is answered with
\* 400 and is not processed.
C9_Stated ==
    \A r \in Requests :
        (Arrived(r) /\ reqs[r].header = None) =>
            (Trace(r) = <<"res400">> /\ NotProcessed(r))

\* C9: with the signing secret configured, a POST without an MCP-Signature
\* header is answered with 400 and is not processed: it is not rendered
\* and makes no outbound call.
C9_MissingHeader400 ==
    \A r \in Requests :
        (Arrived(r) /\ reqs[r].header = None /\ ~FalsyName(SigningSecret)) =>
            (Trace(r) = <<"res400">> /\ NotProcessed(r))

C9_Witness ==
    \E r \in Requests :
        /\ Arrived(r)
        /\ reqs[r].header = None
        /\ reqs[r].wire \in Payloads
        /\ ~FalsyName(SigningSecret)

\* r carries a signature and a body, and a secret is configured
Comparable(r) ==
    /\ Arrived(r)
    /\ ~FalsyName(SigningSecret)
    /\ ~FalsyChars(reqs[r].header)
    /\ reqs[r].wire \in Payloads

\* C10 as stated: a POST whose MCP-Signature is not the signature computed
\* over its raw body with the configured secret is answered with 401 and is
\* not processed, and no outbound call is made for a request whose
\* signature did not verify.
C10_Stated ==
    \A r \in Requests :
        /\ (Comparable(r)
            /\ reqs[r].header[1] # generateSignature(reqs[r].wire, SigningSecret[1]))
           => (Trace(r) = <<"res401">> /\ NotProcessed(r))
        /\ Calls(r) > 0 => Verified(r)

\* C10: a POST whose MCP-Signature, with the sha256= tag removed and the
\* rest decoded as hex, does not give the bytes of the HMAC of its raw body
\* under the configured secret is answered with 401 and is not processed,
\* and no outbound call is made for a request whose signature did not
\* verify.
C10_InvalidSignature401 ==
    \A r \in Requests :
        /\ (Comparable(r)
            /\ BufferFromHex(StripTag(reqs[r].header[1]))
               # HmacDigest(reqs[r].wire, SigningSecret[1]))
           => (Trace(r) = <<"res401">> /\ NotProcessed(r))
        /\ Calls(r) > 0 => Verified(r)

C10_Witness ==
    /\ \E r \in Requests :
         /\ Comparable(r)
         /\ Len(BufferFromHex(StripTag(reqs[r].header[1]))) = Len(HmacDigest(reqs[r].wire, SigningSecret[1]))
         /\ BufferFromHex(StripTag(reqs[r].header[1])) # HmacDigest(reqs[r].wire, SigningSecret[1])
         /\ Trace(r) = <<"res401">>
    /\ \E r \in Requests : Calls(r) > 0

\* C11: when the signing secret is not configured, every POST is answered
\* with 500 and is not processed, whatever signature and body it carries.
C11_NoSecret500 ==
    \A r \in Requests :
        (Arrived(r) /\ FalsyName(SigningSecret)) =>
            (Trace(r) = <<"res500">> /\ NotProcessed(r))

C11_Witness ==
    \E r \in Requests :
        /\ Arrived(r)
        /\ FalsyName(SigningSecret)
        /\ reqs[r].wire \in Payloads
        /\ reqs[r].header = Some(generateSignature(reqs[r].wire, "s1"))

\* C12: with the environment the README describes (MCP_WEBHOOK_SECRET set,
\* no other secret variable), a sample payload signed by sendTestWebhook
\* with that secret is admitted with 200.
C12_ReadmeSecretAdmits ==
    \A r \in Requests :
        (/\ env = ReadmeEnv
         /\ Arrived(r)
         /\ reqs[r].wire \in Payloads
         /\ reqs[r].header = sendTestWebhook(reqs[r].wire))
        => Trace(r)[1] = "res200"

(* ------------------------------------------------------------------ *)
(* Properties of the connectivity flag                                 *)
(* ------------------------------------------------------------------ *)
IsSignal(e) == e \in LifecycleSignals

\* the lifecycle signals received so far, in order
SignalsReceived == SelectSeq(history, IsSignal)

LastIs(seq, values) == seq # <<>> /\ seq[Len(seq)] \in values

FlagChanges == socketModeConnected' # socketModeConnected

InFlight(r) == reqs[r].pc \in {"awaitPostMessage", "awaitWebhook", "awaitBackup"}

\* the calls of r are those its own reading of the flag and its own
\* failures call for, whatever the flag is now
FollowsSnapshot(r) ==
    /\ ReadConnected(r) =>
          /\ PostMessageCalls(r) = 1
          /\ WebhookCalls(r) = Count(Trace(r), "logErrorPosting")
          /\ Before(r, "postMessage", "sendWebhookMessage")
    /\ ReadDisconnected(r) =>
          /\ PostMessageCalls(r) = 0
          /\ WebhookCalls(r) = 1 + Count(Trace(r), "logErrorPosting")

\* C16: the flag is read once per event.  The first channel is the one the
\* value read calls for, the fallback is tried exactly when the first send
\* failed and goes to the webhook, and a step that changes the flag changes
\* no event, in flight or not.
C16_SnapshotFixesPath ==
    /\ [](\A r \in Requests : FollowsSnapshot(r))
    /\ [][FlagChanges => \A r \in Requests : reqs'[r] = reqs[r]]_vars

C16_Witness ==
    \E r \in Requests :
        /\ reqs[r].pc = "awaitBackup"
        /\ ReadDisconnected(r)
        /\ socketModeConnected

RenderFaulted(r) == Has(r, "renderThrow")

\* C17: a render fault is caught and logged: the event ends there with its
\* 200 response and no outbound call, the process keeps running, and the
\* step in which the fault happens changes no other event, so the events in
\* flight go on as they were.
C17_RenderFaultIsContained ==
    /\ [](\A r \in Requests :
            RenderFaulted(r) =>
                /\ Trace(r) = <<"res200", "renderThrow", "logErrorProcessing">>
                /\ Finished(r)
                /\ main = "listening")
    /\ [][\A r \in Requests :
            (reqs'[r] # reqs[r] /\ ~RenderFaulted(r) /\ RenderFaulted(r)') =>
                \A q \in Requests \ {r} : reqs'[q] = reqs[q]]_vars

C17_Witness ==
    \E r, q \in Requests :
        /\ RenderFaulted(r)
        /\ q < r
        /\ Rendered(q)
        /\ InFlight(q)

(* ------------------------------------------------------------------ *)
(* Properties of verifySignature                                       *)
(* ------------------------------------------------------------------ *)
Returned == check.pc = "returned"

NonEmptyPayload == check.payload \in {Some(p) : p \in Payloads}

NonEmptySecret == check.secret \in {Some(k) : k \in Secrets}

\* C18: for every non-empty body and non-empty secret S,
\* verify(body, computeSignature(body, S), S) returns true.
C18_RoundTrip ==
    (/\ Returned
     /\ NonEmptyPayload
     /\ NonEmptySecret
     /\ check.signature = Some(generateSignature(check.payload[1], check.secret[1])))
    => check.result = "true"

C18_Witness ==
    /\ Returned
    /\ check.impl = "verifier"
    /\ check.payload = Some("updated")
    /\ check.secret = Some("s2")
    /\ check.signature = Some(generateSignature("updated", "s2"))
    /\ check.result = "true"

\* C19: for every body, secret S and body' other than body,
\* verify(body', computeSignature(body, S), S) returns false.
C19_RejectsTampering ==
    (/\ Returned
     /\ NonEmptySecret
     /\ \E body \in Payloads :
           /\ Some(body) # check.payload
           /\ check.signature = Some(generateSignature(body, check.secret[1])))
    => check.result = "false"

C19_Witness ==
    /\ Returned
    /\ check.impl = "verifier"
    /\ check.payload = Some("updated")
    /\ check.secret = Some("s1")
    /\ check.signature = Some(generateSignature("packet", "s1"))
    /\ check.result = "false"

\* C20: for every body and distinct non-empty secrets S1 and S2,
\* verify(body, computeSignature(body, S1), S2) returns false.
C20_RejectsWrongSecret ==
    (/\ Returned
     /\ NonEmptyPayload
     /\ NonEmptySecret
     /\ \E S1 \in Secrets :
           /\ Some(S1) # check.secret
           /\ check.signature = Some(generateSignature(check.payload[1], S1)))
    => check.result = "false"

C20_Witness ==
    /\ Returned
    /\ check.impl = "verifier"
    /\ check.payload = Some("packet")
    /\ check.secret = Some("s2")
    /\ check.signature = Some(generateSignature("packet", "s1"))
    /\ check.result = "false"

\* the three inputs are present and the received signature decodes to a
\* number of bytes other than the expected one
DecodedLengthsDiffer ==
    /\ ~FalsyName(check.payload)
    /\ ~FalsyChars(check.signature)
    /\ ~FalsyName(check.secret)
    /\ Len(BufferFromHex(StripTag(check.signature[1])))
          # Len(BufferFromHex(StripTag(generateSignature(check.payload[1], check.secret[1]))))

\* C21: when the received signature decodes to a different number of bytes
\* than the expected one, verify returns false and does not throw.
C21_LengthMismatchReturnsFalse ==
    (Returned /\ DecodedLengthsDiffer) => check.result = "false"

AnInputMissing ==
    FalsyName(check.payload) \/ FalsyChars(check.signature) \/ FalsyName(check.secret)

\* C22: verify returns false, and does not throw, whenever the raw body,
\* the received signature or the secret is missing or empty.
C22_MissingInputReturnsFalse ==
    (Returned /\ AnInputMissing) => check.result = "false"

C22_Witness ==
    /\ Returned
    /\ check.impl = "legacy"
    /\ check.payload = Some("packet")
    /\ check.signature = Some(generateSignature("packet", "s1"))
    /\ check.secret = None
    /\ check.result = "false"

\* what a health route has to say of the flag
ReportsFlag(answer, flag) ==
    answer.body = (IF answer.route = "express"
                   THEN (IF flag THEN "connected" ELSE "disconnected")
                   ELSE (IF flag THEN "true" ELSE "false"))

\* C24: every answer of a health route, to a GET with or without a
\* signature, has status 200 and reports the value the flag has at that
\* moment; giving it changes neither the flag nor the startup position
\* nor any request, so it makes no outbound call.
C24_HealthReportsFlag ==
    [][health' # health =>
         /\ health'.status = "res200"
         /\ ReportsFlag(health', socketModeConnected)
         /\ UNCHANGED <<env, main, socketModeConnected, reqs>>]_vars

C24_Witness ==
    /\ health.route = "express"
    /\ health.signature = None
    /\ health.body = "disconnected"
    /\ ~socketModeConnected
    /\ \E r \in Requests : reqs[r].pc = "awaitPostMessage"

\* the persistent-session send of request r has not settled
SendPending(r) == reqs[r].pc = "awaitPostMessage"

\* C25: while the persistent-session send of an event has not settled, the
\* event has made no webhook call, and the only steps that move the event
\* on are the send fulfilling or rejecting: nothing times the send out, a
\* change of the flag included.
C25_UnsettledSendNeverFallsBack ==
    /\ [](\A r \in Requests : SendPending(r) => WebhookCalls(r) = 0)
    /\ [][\A r \in Requests :
            (SendPending(r) /\ reqs'[r] # reqs[r])
            => /\ socketModeConnected' = socketModeConnected
               /\ Len(reqs'[r].trace) > Len(reqs[r].trace)
               /\ reqs'[r].trace[Len(reqs[r].trace) + 1]
                     \in {"logSocketPosted", "logErrorPosting"}]_vars

C25_Witness ==
    \E r, q \in Requests :
        /\ r < q
        /\ SendPending(r)
        /\ ReadConnected(r)
        /\ ~socketModeConnected
        /\ Finished(q)
        /\ ReadDisconnected(q)

\* the positions of the trace of r at which a response is written
Responses(r) == {i \in 1..Len(Trace(r)) : Trace(r)[i] \in ResponseEvents}

\* C26: every POST that has reached the middleware has exactly one
\* response, of status 200, 400, 401 or 500: never none, never a second
\* one, whatever the delivery does afterwards.
C26_ExactlyOneResponse ==
    \A r \in Requests :
        Arrived(r) => \E i \in Responses(r) : Responses(r) = {i}

C26_Witness ==
    \E r, q \in Requests :
        /\ Has(r, "res200")
        /\ Has(r, "logBothFailed")
        /\ Finished(r)
        /\ Trace(q) = <<"res401">>

\* C29: a POST that carries a signature header but whose raw body was not
\* captured is answered with 500 by the middleware, not with the 401 of a
\* failed comparison, and is not processed: no rendering, no outbound call.
C29_NoRawBody500 ==
    \A r \in Requests :
        (Arrived(r) /\ ~FalsyChars(reqs[r].header) /\ CaptureRawBody(reqs[r].wire) = None)
        => /\ Trace(r) = <<"res500">>
           /\ NotProcessed(r)

C29_Witness ==
    \E r \in Requests :
        /\ Arrived(r)
        /\ ~FalsyName(SigningSecret)
        /\ reqs[r].header = Some(generateSignature("packet", "s1"))
        /\ reqs[r].wire = ""
        /\ Trace(r) = <<"res500">>

\* the status the first failing check calls for: secret configured, then
\* header present, then raw body present, then signature valid
FirstFailingCheck(r) ==
    IF FalsyName(SigningSecret) THEN "res500"
    ELSE IF FalsyChars(reqs[r].header) THEN "res400"
    ELSE IF CaptureRawBody(reqs[r].wire) = None THEN "res500"
    ELSE IF Verified(r) THEN "res200"
    ELSE "res401"

\* C30: the status of every POST is the one its first failing check calls
\* for, in the order secret, header, raw body, signature: without a header
\* it is 500 when no secret is configured, and 400 when one is, an empty
\* body notwithstanding.
C30_FirstFailingCheckDecides ==
    \A r \in Requests :
        Arrived(r) =>
            /\ Trace(r)[1] = FirstFailingCheck(r)
            /\ (FalsyChars(reqs[r].header) /\ FalsyName(SigningSecret))
                 => Trace(r) = <<"res500">>
            /\ (FalsyChars(reqs[r].header) /\ ~FalsyName(SigningSecret))
                 => Trace(r) = <<"res400">>

C30_Witness ==
    \E r \in Requests :
        /\ ~FalsyName(SigningSecret)
        /\ reqs[r].header = None
        /\ reqs[r].wire = ""
        /\ Trace(r) = <<"res400">>

\* C27: no step of request handling or delivery changes the flag: when a
\* persistent-session send has failed or succeeded the flag is what it was,
\* and a request handled while the flag is set tries the persistent
\* session, whatever became of the sends before it.
C27_DeliveryLeavesFlag ==
    [][/\ reqs' # reqs => socketModeConnected' = socketModeConnected
       /\ \A q \in Requests :
            (reqs[q].pc = "idle" /\ reqs'[q].snapshot # "unread")
            => /\ (reqs'[q].snapshot = "connected") = socketModeConnected
               /\ socketModeConnected => reqs'[q].pc = "awaitPostMessage"]_vars

C27_Witness ==
    \E r, q \in Requests :
        /\ r < q
        /\ PrimaryFailed(r)
        /\ Finished(r)
        /\ socketModeConnected
        /\ SendPending(q)

\* the outbound calls among the events e
CallsIn(e) == Count(e, "postMessage") + Count(e, "sendWebhookMessage")

\* C28: a step changes one event at most; it only adds to that event's
\* trace, and the calls it adds are those the event's own reading of the
\* flag (on arrival) or the failure of its own call (later) asks for.  No
\* failure, hang or render fault of an event adds a call to another event
\* or removes one from it.
C28_EventsAreIndependent ==
    [][\A r \in Requests :
          reqs'[r] # reqs[r] =>
            /\ \A q \in Requests \ {r} : reqs'[q] = reqs[q]
            /\ Len(reqs'[r].trace) > Len(reqs[r].trace)
            /\ SubSeq(reqs'[r].trace, 1, Len(reqs[r].trace)) = reqs[r].trace
            /\ LET added == SubSeq(reqs'[r].trace, Len(reqs[r].trace) + 1,
                                   Len(reqs'[r].trace))
               IN  CallsIn(added) =
                     IF reqs[r].pc = "idle"
                     THEN (IF reqs'[r].snapshot = "unread" THEN 0 ELSE 1)
                     ELSE (IF added[1] = "logErrorPosting" THEN 1 ELSE 0)]_vars

C28_Witness ==
    \E r, q \in Requests :
        /\ r < q
        /\ BothFailed(r)
        /\ ReadConnected(q)
        /\ Finished(q)
        /\ Calls(q) = 1

\* C31: a POST is answered, admitted or delivered only while the server
\* listens; the server comes to listen only in the step in which
\* slackApp.start() completes, which sets the flag; a failed start ends the
\* process from its starting position, with no request answered, and an
\* ended process stays ended.
C31_ListensOnlyAfterStart ==
    /\ [](\A r \in Requests : Arrived(r) => main = "listening")
    /\ [][main' # main =>
            /\ main = "starting"
            /\ reqs' = reqs
            /\ \A r \in Requests : ~Arrived(r)
            /\ main' = "listening" => socketModeConnected'
            /\ main' = "exited" => socketModeConnected' = socketModeConnected]_vars

C31_Witness ==
    /\ main = "listening"
    /\ \E r \in Requests : Admitted(r) /\ Finished(r) /\ Calls(r) = 1
    /\ \E r \in Requests : Trace(r) = <<"res400">>

DeliveredViaSession(r) == Has(r, "logSocketPosted")

DeliveredViaWebhook(r) == Has(r, "logWebhookPosted") \/ Has(r, "logBackupSucceeded")

BothFailedLogged(r) == Has(r, "logBothFailed")

\* how many of the three outcomes r has reached
Outcomes(r) ==
    (IF DeliveredViaSession(r) THEN 1 ELSE 0)
    + (IF DeliveredViaWebhook(r) THEN 1 ELSE 0)
    + (IF BothFailedLogged(r) THEN 1 ELSE 0)

FinishedStaysFinished ==
    [][\A r \in Requests : Finished(r) => reqs'[r] = reqs[r]]_vars

\* C32 as stated: when every transport call settles, every admitted event
\* eventually finishes with exactly one of the three outcomes (delivered
\* via the session, delivered via the webhook, both-failed logged) and
\* changes no more.
C32_Stated ==
    /\ \A r \in Requests : Admitted(r) ~> (Finished(r) /\ Outcomes(r) = 1)
    /\ FinishedStaysFinished

\* C32: when every transport call settles, every admitted event eventually
\* finishes and then makes no further call: with exactly one of the three
\* outcomes when its message was rendered, and with none of them and no
\* outbound call when rendering threw.
C32_AdmittedEventFinishes ==
    /\ \A r \in Requests :
          Admitted(r) ~> (/\ Finished(r)
                          /\ Outcomes(r) = (IF RenderFaulted(r) THEN 0 ELSE 1)
                          /\ RenderFaulted(r) => Calls(r) = 0)
    /\ [][\A r \in Requests : Finished(r) => Trace(r)' = Trace(r)]_vars

C32_Witness ==
    \E r, q \in Requests :
        /\ Admitted(r) /\ Finished(r) /\ RenderFaulted(r) /\ Outcomes(r) = 0
        /\ Admitted(q) /\ Finished(q) /\ BothFailedLogged(q) /\ Outcomes(q) = 1

====
